---- MODULE Spec2Model ----
(***************************************************************************)
(* A model of the near-space pipeline of this repository:                  *)
(*   process_near_space.py    the fixed-width sounding parser, the monthly *)
(*                            aggregation and the three-way merge of main  *)
(*   atmospheric_analysis.py  the statistics and classification functions  *)
(*                                                                         *)
(* Numbers.  Python's Optional[int] is the tuple <<>> (None) or <<v>>.     *)
(* A float is the record Num(n, d), standing for n/d, or NaN.  Potential   *)
(* temperature needs a real power, so its value is kept as the term        *)
(* Theta(t, p) of its two arguments.                                       *)
(***************************************************************************)
EXTENDS Integers, Sequences, FiniteSets, TLC

VARIABLES
    pc,          \* position of the running program
    file,        \* the lines of the sounding file
    pos,         \* read cursor of the file handle: number of lines read
    records,     \* parse_igra_soundings: the list `records`
    role,        \* history: what the parser did with each line of the file
    origin,      \* history: origin[k] is the header line of records[k]
    igra_df,     \* the data frame parse_igra_soundings returns
    igra_monthly,     \* main: the monthly sounding metrics
    igra_seasonal,    \* main: the seasonal sounding metrics
    aod_file,         \* the data rows of the optical-depth file, as read_csv sees them
    sda_file,         \* the data rows of the spectral-deconvolution file
    aod_monthly,      \* main: the frame read_aeronet_monthly returns
    sda_monthly,      \* main: the frame read_sda_monthly returns
    aerosol_monthly,  \* main: the merged aerosol frame
    merged,           \* main: the merged monthly output
    combo,            \* the report: the merged frame load_analysis_data returns
    correlations,     \* the report: the result of calculate_correlations
    episodes,         \* the report: the result of identify_high_pollution_episodes
    mixing,           \* the report: the result of calculate_mixing_metrics
    sources           \* the report: the result of aerosol_source_attribution

parseVars == <<file, pos, records, role, origin>>
mainVars == <<igra_monthly, aod_file, sda_file, aod_monthly, sda_monthly,
              aerosol_monthly, merged>>

reportVars == <<combo, correlations, episodes, mixing, sources>>

vars == <<pc, parseVars, igra_df, igra_seasonal, mainVars, reportVars>>

(***************************************************************************)
(* Bounds of the model.                                                    *)
(***************************************************************************)
MaxLines == 4
MaxLevels == 3
MaxRows == 2
MaxMonths == 3

(***************************************************************************)
(* Values.                                                                 *)
(***************************************************************************)
None == <<>>
NaN == [nan |-> TRUE]
Num(n, d) == [num |-> n, den |-> d]
isnan(x) == x = NaN

Min(a, b) == IF a < b THEN a ELSE b

\* Python truthiness of an Optional[int]: None and 0 are false.
Truthy(x) == x # None /\ x[1] # 0

(***************************************************************************)
(* process_near_space.py: field decoding.                                  *)
(***************************************************************************)
\* A raw segment is <<>> when blank after strip(), else <<v>> for its digits.
_parse_int(segment) ==
    IF segment = <<>> \/ segment \in {<<-9999>>, <<-8888>>}
    THEN None
    ELSE segment

_parse_float(segment, scale) ==
    LET value == _parse_int(segment)
    IN  IF value = None THEN None ELSE Num(value[1], scale)

\* temp_k * (1000.0 / pressure_hpa) ** 0.2854, kept as a term.
_potential_temperature(temp_c, pressure_hpa) ==
    [theta_temp_c |-> temp_c, theta_pressure_hpa |-> pressure_hpa]

\* int(round(pressure / 100.0)): round-half-to-even on a non-negative value.
RoundHundredths(pressure) ==
    LET q == pressure \div 100
        r == pressure % 100
    IN  IF r > 50 THEN q + 1
        ELSE IF r < 50 THEN q
        ELSE IF q % 2 = 0 THEN q ELSE q + 1

(***************************************************************************)
(* The lines of a sounding file.                                           *)
(***************************************************************************)
Header(year, month, day, hour, num_levels) ==
    [kind |-> "#", year |-> year, month |-> month, day |-> day,
     hour |-> hour, num_levels |-> num_levels]

Level(lvl_type, pressure, gph, temp, rh) ==
    [kind |-> "level", lvl_type |-> lvl_type, pressure |-> pressure,
     gph |-> gph, temp |-> temp, rh |-> rh]

startswith_hash(line) == line.kind = "#"

\* The declared level counts a header of the model may carry.
Counts == {<<n>> : n \in 0..MaxLevels}

GoodHeaders ==
    {Header(<<2010>>, <<1>>, <<15>>, <<12>>, n) : n \in Counts}
    \cup {Header(<<2009>>, <<12>>, <<31>>, <<99>>, <<2>>),
          Header(<<2010>>, <<2>>, <<1>>, <<>>, <<>>)}

MalformedHeaders ==
    {Header(<<-9999>>, <<1>>, <<15>>, <<12>>, n) : n \in Counts}
    \cup {Header(<<2010>>, <<>>, <<15>>, <<12>>, <<1>>),
          Header(<<2010>>, <<1>>, <<-8888>>, <<0>>, <<-9999>>)}

LevelLines ==
    { Level(<<1>>, <<92500>>, <<760>>,   <<100>>,   <<550>>),
      Level(<<2>>, <<92460>>, <<-9999>>, <<-9999>>, <<-9999>>),
      Level(<<1>>, <<70000>>, <<3010>>,  <<-50>>,   <<300>>),
      Level(<<2>>, <<70000>>, <<-8888>>, <<-30>>,   <<-9999>>),
      Level(<<2>>, <<70000>>, <<3000>>,  <<-9999>>, <<400>>),
      Level(<<1>>, <<85000>>, <<1500>>,  <<20>>,    <<700>>),
      Level(<<2>>, <<85000>>, <<1500>>,  <<>>,      <<-8888>>),
      Level(<<>>,  <<92500>>, <<770>>,   <<120>>,   <<500>>),
      Level(<<1>>, <<-9999>>, <<3000>>,  <<-40>>,   <<500>>) }

\* The level lines that follow a malformed header, and the stray ones.
SkipLines ==
    { Level(<<1>>, <<92500>>, <<760>>,  <<100>>, <<550>>),
      Level(<<1>>, <<70000>>, <<3010>>, <<-50>>, <<300>>) }

(***************************************************************************)
(* The sounding files.  A header is followed by as many level lines as it  *)
(* declares; the last block may be cut short by the end of the file, and   *)
(* stray level lines may stand between blocks.  A file is either a single  *)
(* dated sounding over all of LevelLines, or any sequence of blocks with   *)
(* headers of PlainHeaders and level lines of SkipLines.                   *)
(***************************************************************************)
Declared(h) ==
    LET n == _parse_int(h.num_levels)
    IN  IF Truthy(n) THEN n[1] ELSE 0

SeqsOfLen(S, n) == [1..n -> S]

SingleSoundings ==
    UNION {{<<h>> \o ls : ls \in UNION {SeqsOfLen(LevelLines, k) : k \in 0..Declared(h)}}
           : h \in GoodHeaders}

PlainHeaders ==
    MalformedHeaders \cup {Header(<<2010>>, <<1>>, <<15>>, <<12>>, <<2>>)}

BlocksOfLen(j) ==
    {<<h>> \o ls : h \in {g \in PlainHeaders : Declared(g) = j - 1},
                   ls \in SeqsOfLen(SkipLines, j - 1)}
    \cup (IF j = 1 THEN {<<l>> : l \in SkipLines} ELSE {})

TruncatedOfLen(j) ==
    {<<h>> \o ls : h \in {g \in PlainHeaders : Declared(g) > j - 1},
                   ls \in SeqsOfLen(SkipLines, j - 1)}

RECURSIVE FilesOfLen(_)
FilesOfLen(k) ==
    IF k = 0 THEN {<<>>}
    ELSE TruncatedOfLen(k)
         \cup UNION {{b \o rest : b \in BlocksOfLen(j), rest \in FilesOfLen(k - j)}
                     : j \in 1..k}

SoundingFiles == SingleSoundings \cup UNION {FilesOfLen(k) : k \in 1..MaxLines}

(***************************************************************************)
(* parse_igra_soundings.                                                   *)
(***************************************************************************)
\* StoreLevel with a bug: the first level stored under a key is kept.
StoreLevelKeepFirst(level_store, data_line) ==
    LET lvl_type_major == _parse_int(data_line.lvl_type)
        pressure == _parse_int(data_line.pressure)
        gph == _parse_int(data_line.gph)
        temp_c == _parse_float(data_line.temp, 10)
        rh == _parse_float(data_line.rh, 10)
    IN  IF pressure = None \/ lvl_type_major = None
        THEN level_store
        ELSE LET pressure_key == RoundHundredths(pressure[1])
                 entry == [pressure_hpa |-> Num(pressure[1], 100),
                           gph |-> IF gph # None THEN Num(gph[1], 1) ELSE NaN,
                           temp_c |-> IF temp_c # None THEN temp_c ELSE NaN,
                           rh |-> IF rh # None THEN rh ELSE NaN]
             IN  [k \in DOMAIN level_store \cup {pressure_key} |->
                    IF k \in DOMAIN level_store THEN level_store[k] ELSE entry]

\* Lines 79-95: one pass of the level loop over a line that was read.
StoreLevel(level_store, data_line) ==
    LET lvl_type_major == _parse_int(data_line.lvl_type)
        pressure == _parse_int(data_line.pressure)
        gph == _parse_int(data_line.gph)
        temp_c == _parse_float(data_line.temp, 10)
        rh == _parse_float(data_line.rh, 10)
    IN  IF pressure = None \/ lvl_type_major = None
        THEN level_store
        ELSE LET pressure_key == RoundHundredths(pressure[1])
                 entry == [pressure_hpa |-> Num(pressure[1], 100),
                           gph |-> IF gph # None THEN Num(gph[1], 1) ELSE NaN,
                           temp_c |-> IF temp_c # None THEN temp_c ELSE NaN,
                           rh |-> IF rh # None THEN rh ELSE NaN]
             IN  [k \in DOMAIN level_store \cup {pressure_key} |->
                    IF k = pressure_key THEN entry ELSE level_store[k]]

\* Lines 75-95: the level loop.  readline() at the end of the file returns
\* the empty string and the loop breaks; a header line read here makes
\* int("#") raise.
RECURSIVE ReadLevels(_, _, _, _)
ReadLevels(f, p, n, level_store) ==
    IF n <= 0 \/ p >= Len(f)
    THEN [pos |-> p, level_store |-> level_store, raised |-> FALSE]
    ELSE IF startswith_hash(f[p + 1])
    THEN [pos |-> p + 1, level_store |-> level_store, raised |-> TRUE]
    ELSE ReadLevels(f, p + 1, n - 1, StoreLevel(level_store, f[p + 1]))

\* SkipCount with a bug: one line too many is skipped.
SkipCountOneMore(num_levels) == num_levels + 1

\* Lines 62-63: the number of readline() calls of the loop that skips the
\* level lines of a malformed block.
SkipCount(num_levels) == num_levels

EmptyStore == [k \in {} |-> NaN]

Timestamp(year, month, day, hour) ==
    [year |-> year[1], month |-> month[1], day |-> day[1],
     hour |-> IF hour # None /\ hour[1] <= 23 THEN hour[1] ELSE 0]

HeaderMalformed(header) ==
    ~(Truthy(_parse_int(header.year)) /\ Truthy(_parse_int(header.month))
      /\ Truthy(_parse_int(header.day)))

\* Lines 101-104: the two tests that drop a sounding.
RecordKept(level_store) ==
    /\ 925 \in DOMAIN level_store
    /\ 700 \in DOMAIN level_store
    /\ ~isnan(level_store[925].temp_c)
    /\ ~isnan(level_store[700].temp_c)

\* Lines 106-136.
MakeRecord(sounding_ts, level_store) ==
    LET lvl925 == level_store[925]
        lvl700 == level_store[700]
        has850 == 850 \in DOMAIN level_store
        theta925 == _potential_temperature(lvl925.temp_c, lvl925.pressure_hpa)
        theta700 == _potential_temperature(lvl700.temp_c, lvl700.pressure_hpa)
        theta850 == IF has850 /\ ~isnan(level_store[850].temp_c)
                    THEN _potential_temperature(level_store[850].temp_c,
                                                level_store[850].pressure_hpa)
                    ELSE NaN
    IN  [datetime |-> sounding_ts,
         theta_gradient_700_925_K |-> [minuend |-> theta700, subtrahend |-> theta925],
         theta_850_K |-> theta850,
         relative_humidity_850_pct |->
             IF has850 /\ ~isnan(level_store[850].rh)
             THEN level_store[850].rh ELSE NaN,
         height_925_m |-> IF ~isnan(lvl925.gph) THEN lvl925.gph ELSE NaN,
         height_diff_700_925_m |->
             IF ~isnan(lvl700.gph) /\ ~isnan(lvl925.gph)
             THEN Num(lvl700.gph.num - lvl925.gph.num, 1) ELSE NaN]

Mark(r, from, to, what) ==
    [i \in DOMAIN r |-> IF i >= from /\ i <= to THEN what ELSE r[i]]

InitParse ==
    /\ pc = "parse"
    /\ file \in SoundingFiles
    /\ pos = 0
    /\ records = <<>>
    /\ role = [i \in 1..Len(file) |-> "unread"]
    /\ origin = <<>>
    /\ igra_df = <<>>
    /\ igra_monthly = <<>>
    /\ igra_seasonal = <<>>
    /\ aod_file = <<>>
    /\ sda_file = <<>>
    /\ aod_monthly = <<>>
    /\ sda_monthly = <<>>
    /\ aerosol_monthly = <<>>
    /\ merged = <<>>
    /\ combo = <<>>
    /\ correlations = <<>>
    /\ episodes = <<>>
    /\ mixing = <<>>
    /\ sources = <<>>

\* Lines 48-52: a line that is no header is passed over.
OrphanLine ==
    /\ pc = "parse"
    /\ pos < Len(file)
    /\ ~startswith_hash(file[pos + 1])
    /\ pos' = pos + 1
    /\ role' = Mark(role, pos + 1, pos + 1, "orphan")
    /\ UNCHANGED <<igra_seasonal, pc, file, records, origin, igra_df, mainVars, reportVars>>

\* Lines 54-64: a header without year, month or day; its lines are skipped.
SkipMalformed ==
    /\ pc = "parse"
    /\ pos < Len(file)
    /\ startswith_hash(file[pos + 1])
    /\ HeaderMalformed(file[pos + 1])
    /\ LET num_levels == Declared(file[pos + 1])
           last == Min(pos + 1 + SkipCount(num_levels), Len(file))
       IN  /\ pos' = last
           /\ role' = Mark(Mark(role, pos + 1, pos + 1, "header"),
                           pos + 2, last, "skipped")
    /\ UNCHANGED <<igra_seasonal, pc, file, records, origin, igra_df, mainVars, reportVars>>

\* Lines 54-104: a header with a date whose levels give no record.
SoundingDropped ==
    /\ pc = "parse"
    /\ pos < Len(file)
    /\ startswith_hash(file[pos + 1])
    /\ ~HeaderMalformed(file[pos + 1])
    /\ LET got == ReadLevels(file, pos + 1, Declared(file[pos + 1]), EmptyStore)
       IN  /\ got.raised \/ ~RecordKept(got.level_store)
           /\ pos' = got.pos
           /\ pc' = IF got.raised THEN "error" ELSE pc
           /\ role' = Mark(Mark(role, pos + 1, pos + 1, "header"),
                           pos + 2, got.pos, "level")
    /\ UNCHANGED <<igra_seasonal, file, records, origin, igra_df, mainVars, reportVars>>

\* Lines 54-137: a header with a date whose levels give a record.
SoundingRecorded ==
    /\ pc = "parse"
    /\ pos < Len(file)
    /\ startswith_hash(file[pos + 1])
    /\ ~HeaderMalformed(file[pos + 1])
    /\ LET header == file[pos + 1]
           got == ReadLevels(file, pos + 1, Declared(header), EmptyStore)
           sounding_ts == Timestamp(_parse_int(header.year), _parse_int(header.month),
                                    _parse_int(header.day), _parse_int(header.hour))
       IN  /\ ~got.raised
           /\ RecordKept(got.level_store)
           /\ pos' = got.pos
           /\ records' = Append(records, MakeRecord(sounding_ts, got.level_store))
           /\ origin' = Append(origin, pos + 1)
           /\ role' = Mark(Mark(role, pos + 1, pos + 1, "header"),
                           pos + 2, got.pos, "level")
    /\ UNCHANGED <<igra_seasonal, pc, file, igra_df, mainVars, reportVars>>

\* Lines 49-50 and 138-140: the end of the file; the frame is built.  A frame
\* of no records has no columns and dropna(subset=...) raises KeyError.
dropna_gradient(recs) ==
    SelectSeq(recs, LAMBDA r : ~isnan(r.theta_gradient_700_925_K))

EndOfFile ==
    /\ pc = "parse"
    /\ pos >= Len(file)
    /\ pc' = IF records = <<>> THEN "error" ELSE "parsed"
    /\ igra_df' = dropna_gradient(records)
    /\ UNCHANGED <<igra_seasonal, parseVars, mainVars, reportVars>>

NextParse ==
    \/ OrphanLine
    \/ SkipMalformed
    \/ SoundingDropped
    \/ SoundingRecorded
    \/ EndOfFile

SpecParse == InitParse /\ [][NextParse]_vars

(***************************************************************************)
(* Properties of the parser.                                               *)
(***************************************************************************)
Absent(segment) == segment \in {<<>>, <<-9999>>, <<-8888>>}

DateAbsent(h) == Absent(h.year) \/ Absent(h.month) \/ Absent(h.day)

IsHeaderAt(i) == i \in 1..Len(file) /\ file[i].kind = "#"

\* The next header line of the source after line i, or Len(file) + 1.
NextHeader(i) ==
    LET later == {j \in (i + 1)..Len(file) : IsHeaderAt(j)}
    IN  IF later = {} THEN Len(file) + 1
        ELSE CHOOSE j \in later : \A k \in later : j <= k

Recorded(i) == \E k \in 1..Len(origin) : origin[k] = i

\* The level lines of the block of header line i, as the file holds them.
BlockLines(i) ==
    LET n == IF Absent(file[i].num_levels) THEN 0 ELSE file[i].num_levels[1]
    IN  {j \in (i + 1)..Min(i + n, Len(file)) : file[j].kind = "level"}

KeptLine(i, key) ==
    LET usable == {j \in BlockLines(i) :
                      /\ ~Absent(file[j].pressure)
                      /\ ~Absent(file[j].lvl_type)
                      /\ RoundHundredths(file[j].pressure[1]) = key}
    IN  IF usable = {} THEN 0
        ELSE CHOOSE j \in usable : \A k \in usable : k <= j

FieldOf(j, segment, scale) ==
    IF j = 0 \/ Absent(segment) THEN NaN ELSE Num(segment[1], scale)

ExpectedRecord(i) ==
    /\ KeptLine(i, 925) # 0 /\ ~Absent(file[KeptLine(i, 925)].temp)
    /\ KeptLine(i, 700) # 0 /\ ~Absent(file[KeptLine(i, 700)].temp)

\* C10: a block with a dated header gives a record iff the last usable lines
\* of the block under the keys 925 and 700 both exist and both carry a
\* temperature; the record's 850 hPa humidity and its two heights are those
\* of the kept lines, missing exactly when the kept line or its field is.
C10_RecordIffBothTemperatures ==
    /\ \A i \in 1..Len(file) :
          (IsHeaderAt(i) /\ ~DateAbsent(file[i]) /\ role[i] = "header") =>
             (Recorded(i) <=> ExpectedRecord(i))
    /\ \A k \in 1..Len(origin) :
          LET i == origin[k]
              l925 == KeptLine(i, 925)
              l850 == KeptLine(i, 850)
              l700 == KeptLine(i, 700)
              h925 == FieldOf(l925, file[l925].gph, 1)
              h700 == FieldOf(l700, file[l700].gph, 1)
          IN  /\ records[k].relative_humidity_850_pct
                    = (IF l850 = 0 THEN NaN ELSE FieldOf(l850, file[l850].rh, 10))
              /\ isnan(records[k].theta_850_K)
                    <=> (l850 = 0 \/ Absent(file[l850].temp))
              /\ records[k].height_925_m = h925
              /\ isnan(records[k].height_diff_700_925_m)
                    <=> (isnan(h925) \/ isnan(h700))
              /\ records[k].theta_gradient_700_925_K.minuend.theta_temp_c
                    = Num(file[l700].temp[1], 10)
              /\ records[k].theta_gradient_700_925_K.subtrahend.theta_temp_c
                    = Num(file[l925].temp[1], 10)

\* A record from a block in which a later 700 hPa line replaced an earlier
\* one that had no temperature, with no 850 hPa level and no 700 hPa height.
C10_Witness ==
    \E k \in 1..Len(origin) :
        LET i == origin[k]
        IN  /\ KeptLine(i, 850) = 0
            /\ \E j \in BlockLines(i) :
                  /\ j < KeptLine(i, 700)
                  /\ ~Absent(file[j].pressure)
                  /\ RoundHundredths(file[j].pressure[1]) = 700
                  /\ Absent(file[j].temp)
            /\ isnan(records[k].height_diff_700_925_m)
            /\ ~isnan(records[k].height_925_m)

(***************************************************************************)
(* process_near_space.py: months.  A pandas Period of frequency "M" is the *)
(* record [year, month]; its string is "YYYY-MM", kept as the sequence of  *)
(* its character codes so that strings compare as Python compares them.    *)
(***************************************************************************)
Period(year, month) == [year |-> year, month |-> month]

to_period(ts) == Period(ts.year, ts.month)

PeriodBefore(a, b) ==
    a.year < b.year \/ (a.year = b.year /\ a.month < b.month)

Digit(d) == 48 + d
Hyphen == 45

\* astype(str) of a monthly Period with a four-digit year.
PeriodStr(p) ==
    << Digit(p.year \div 1000), Digit((p.year \div 100) % 10),
       Digit((p.year \div 10) % 10), Digit(p.year % 10), Hyphen,
       Digit(p.month \div 10), Digit(p.month % 10) >>

\* Python's order of two strings.
RECURSIVE StrLess(_, _)
StrLess(a, b) ==
    IF b = <<>> THEN FALSE
    ELSE IF a = <<>> THEN TRUE
    ELSE IF Head(a) # Head(b) THEN Head(a) < Head(b)
    ELSE StrLess(Tail(a), Tail(b))

\* The literal '2010-01' of the query at line 256.
FloorMonth == <<Digit(2), Digit(0), Digit(1), Digit(0), Hyphen, Digit(0), Digit(1)>>

(***************************************************************************)
(* compute_monthly_metrics.                                                *)
(***************************************************************************)
Column(rows, field) == [i \in 1..Len(rows) |-> rows[i][field]]

dropna(values) == SelectSeq(values, LAMBDA v : ~isnan(v))

\* The numerators of a column of floats of one denominator, ascending.
SortedNums(values) ==
    SortSeq([i \in 1..Len(values) |-> values[i].num], LAMBDA a, b : a < b)

\* Series.median(): missing values are skipped; NaN when none is left.
median(values) ==
    LET v == dropna(values)
        x == SortedNums(v)
        n == Len(v)
    IN  IF n = 0 THEN NaN
        ELSE IF n % 2 = 1 THEN Num(x[(n + 1) \div 2], v[1].den)
        ELSE Num(x[n \div 2] + x[n \div 2 + 1], 2 * v[1].den)

\* Series.quantile(k/4) with linear interpolation, as a fraction over 4*den.
quantile4(values, k) ==
    LET v == dropna(values)
        x == SortedNums(v)
        n == Len(v)
        h == k * (n - 1)
        lo == h \div 4 + 1
        fr == h % 4
    IN  IF n = 0 THEN NaN
        ELSE Num(4 * x[lo] + (IF fr = 0 THEN 0 ELSE fr * (x[lo + 1] - x[lo])),
                 4 * v[1].den)

iqr(values) ==
    LET q3 == quantile4(values, 3)
        q1 == quantile4(values, 1)
    IN  IF isnan(q3) THEN NaN ELSE Num(q3.num - q1.num, q3.den)

count(values) == Len(dropna(values))

\* The keys of a groupby, ascending.
RECURSIVE SortedPeriods(_)
SortedPeriods(S) ==
    IF S = {} THEN <<>>
    ELSE LET first == CHOOSE p \in S : \A q \in S : ~PeriodBefore(q, p)
         IN  <<first>> \o SortedPeriods(S \ {first})

compute_monthly_metrics(df) ==
    LET month_of(i) == to_period(df[i].datetime)
        keys == SortedPeriods({month_of(i) : i \in 1..Len(df)})
        group(m) == SelectSeq(df, LAMBDA r : to_period(r.datetime) = m)
    IN  [g \in 1..Len(keys) |->
           LET rows == group(keys[g])
           IN  [month |-> PeriodStr(keys[g]),
                theta_gradient_med |-> median(Column(rows, "theta_gradient_700_925_K")),
                theta_gradient_iqr |-> iqr(Column(rows, "theta_gradient_700_925_K")),
                rh_850_med |-> median(Column(rows, "relative_humidity_850_pct")),
                height_diff_med |-> median(Column(rows, "height_diff_700_925_m")),
                soundings |-> count(Column(rows, "theta_gradient_700_925_K"))]]

(***************************************************************************)
(* read_aeronet_monthly and read_sda_monthly.  A cell of a data row is the *)
(* number it spells, in millionths; the Month cell is a "Year-Mon" token   *)
(* or a text without a hyphen.                                             *)
(***************************************************************************)
NA_VALUE == -999000000

na(cell) == IF cell = NA_VALUE THEN NaN ELSE Num(cell, 1000000)

MonthToken(year, mon) == [hyphen |-> TRUE, year |-> year, mon |-> mon]
NoToken == [hyphen |-> FALSE]

contains_hyphen(token) == token.hyphen

\* pd.to_datetime(..., format="%Y-%b").dt.to_period("M")
token_to_period(token) == Period(token.year, token.mon)

read_aeronet_monthly(rows) ==
    LET kept == SelectSeq(rows, LAMBDA r : contains_hyphen(r.Month))
    IN  [i \in 1..Len(kept) |->
           [month |-> token_to_period(kept[i].Month),
            AOD_500nm |-> na(kept[i].AOD_500nm),
            AOD_870nm |-> na(kept[i].AOD_870nm),
            AE_440_870 |-> na(kept[i].Angstrom_440_870),
            NUM_DAYS |-> na(kept[i].NUM_DAYS)]]

read_sda_monthly(rows) ==
    LET kept == SelectSeq(rows, LAMBDA r : contains_hyphen(r.Month))
    IN  [i \in 1..Len(kept) |->
           [month |-> token_to_period(kept[i].Month),
            Total_AOD_500nm |-> na(kept[i].Total_AOD_500nm),
            Fine_Mode_AOD_500nm |-> na(kept[i].Fine_Mode_AOD_500nm),
            Coarse_Mode_AOD_500nm |-> na(kept[i].Coarse_Mode_AOD_500nm),
            FineModeFraction_500nm |-> na(kept[i].FineModeFraction_500nm)]]

(***************************************************************************)
(* main: the two merges and the floor.                                     *)
(***************************************************************************)
\* The row of a merge: the columns of both rows, the key once.
JoinRow(l, r) ==
    [f \in DOMAIN l \cup DOMAIN r |-> IF f \in DOMAIN l THEN l[f] ELSE r[f]]

RECURSIVE MatchesOf(_, _)
MatchesOf(l, right) ==
    IF right = <<>> THEN <<>>
    ELSE (IF Head(right).month = l.month THEN <<JoinRow(l, Head(right))>> ELSE <<>>)
         \o MatchesOf(l, Tail(right))

AerosolColumns ==
    {"month", "AOD_500nm", "AOD_870nm", "AE_440_870", "obs_days",
     "Total_AOD_500nm", "Fine_Mode_AOD_500nm", "Coarse_Mode_AOD_500nm",
     "FineModeFraction_500nm"}

\* The merge with a bug, how="left": a left row without a match is kept and
\* its aerosol columns are NaN.
RECURSIVE merge_left(_, _)
merge_left(left, right) ==
    IF left = <<>> THEN <<>>
    ELSE LET found == MatchesOf(Head(left), right)
             padded == [f \in DOMAIN Head(left) \cup AerosolColumns |->
                          IF f \in DOMAIN Head(left) THEN Head(left)[f] ELSE NaN]
         IN  (IF found = <<>> THEN <<padded>> ELSE found)
             \o merge_left(Tail(left), right)

\* DataFrame.merge(on="month", how="inner"): the order of the left keys, and
\* for each left row its matches in the order of the right frame.
RECURSIVE merge_inner(_, _)
merge_inner(left, right) ==
    IF left = <<>> THEN <<>>
    ELSE MatchesOf(Head(left), right) \o merge_inner(Tail(left), right)

\* sort_values("month") on Periods, equal keys in their order of arrival.
RECURSIVE InsertByMonth(_, _)
InsertByMonth(row, sorted) ==
    IF sorted = <<>> THEN <<row>>
    ELSE IF PeriodBefore(row.month, Head(sorted).month) THEN <<row>> \o sorted
    ELSE <<Head(sorted)>> \o InsertByMonth(row, Tail(sorted))

RECURSIVE sort_values_month(_)
sort_values_month(rows) ==
    IF rows = <<>> THEN <<>>
    ELSE InsertByMonth(rows[Len(rows)], sort_values_month(SubSeq(rows, 1, Len(rows) - 1)))

\* rename(columns={"NUM_DAYS[AOD_500nm]": "obs_days"}) and month.astype(str)
RenameAndStr(row) ==
    [f \in (DOMAIN row \ {"NUM_DAYS"}) \cup {"obs_days"} |->
        IF f = "obs_days" THEN row.NUM_DAYS
        ELSE IF f = "month" THEN PeriodStr(row.month)
        ELSE row[f]]

\* The query with a bug: no floor is applied.
query_no_floor(rows) == rows

\* query("month >= '2010-01'")
query_floor(rows) == SelectSeq(rows, LAMBDA r : ~StrLess(r.month, FloorMonth))

(***************************************************************************)
(* The inputs of main.                                                     *)
(***************************************************************************)
Sounding(year, month, day, gradient, rh, height_diff) ==
    [datetime |-> [year |-> year, month |-> month, day |-> day, hour |-> 0],
     theta_gradient_700_925_K |-> gradient,
     theta_850_K |-> NaN,
     relative_humidity_850_pct |-> rh,
     height_925_m |-> NaN,
     height_diff_700_925_m |-> height_diff]

JanA == Sounding(2010, 1, 15, Num(95, 10), Num(550, 10), Num(2250, 1))
JanB == Sounding(2010, 1, 20, Num(131, 10), NaN, NaN)
Feb == Sounding(2010, 2, 1, Num(60, 10), NaN, Num(2200, 1))
Dec == Sounding(2009, 12, 31, Num(123, 10), Num(700, 10), NaN)

\* The frames parse_igra_soundings may return: no gradient is missing.
IgraFrames ==
    { <<JanA>>, <<JanB, JanA>>, <<Feb, JanA>>, <<Dec>>,
      <<Feb, Dec, JanA>>, <<JanA, Feb, JanB>> }

AodRow(token, a500, a870, ae, days) ==
    [Month |-> token, AOD_500nm |-> a500, AOD_870nm |-> a870,
     Angstrom_440_870 |-> ae, NUM_DAYS |-> days]

SdaRow(token, total, fine, coarse, eta) ==
    [Month |-> token, Total_AOD_500nm |-> total, Fine_Mode_AOD_500nm |-> fine,
     Coarse_Mode_AOD_500nm |-> coarse, FineModeFraction_500nm |-> eta]

AodRows ==
    { AodRow(MonthToken(2009, 12), 410000, 200000, 1200000, 20000000),
      AodRow(MonthToken(2010, 1), 350000, 150000, 1100000, 12000000),
      AodRow(MonthToken(2010, 1), NA_VALUE, NA_VALUE, NA_VALUE, NA_VALUE),
      AodRow(MonthToken(2010, 2), 280000, NA_VALUE, 900000, 9000000),
      AodRow(NoToken, NA_VALUE, NA_VALUE, NA_VALUE, NA_VALUE) }

SdaRows ==
    { SdaRow(MonthToken(2009, 12), 400000, 300000, 100000, 750000),
      SdaRow(MonthToken(2010, 1), NA_VALUE, NA_VALUE, NA_VALUE, NA_VALUE),
      SdaRow(MonthToken(2010, 2), 270000, 120000, 150000, NA_VALUE) }

SeqsUpTo(S, n) == UNION {SeqsOfLen(S, k) : k \in 0..n}

(***************************************************************************)
(* main.                                                                   *)
(***************************************************************************)
InitMain ==
    /\ pc = "main"
    /\ file = <<>>
    /\ pos = 0
    /\ records = <<>>
    /\ role = <<>>
    /\ origin = <<>>
    /\ igra_df = <<>>
    /\ igra_monthly = <<>>
    /\ igra_seasonal = <<>>
    /\ aod_file = <<>>
    /\ sda_file = <<>>
    /\ aod_monthly = <<>>
    /\ sda_monthly = <<>>
    /\ aerosol_monthly = <<>>
    /\ merged = <<>>
    /\ combo = <<>>
    /\ correlations = <<>>
    /\ episodes = <<>>
    /\ mixing = <<>>
    /\ sources = <<>>

\* Line 231.
ParseIgra ==
    /\ pc = "main"
    /\ \E df \in IgraFrames : igra_df' = df
    /\ pc' = "monthly"
    /\ UNCHANGED <<igra_seasonal, parseVars, mainVars, reportVars>>

\* Lines 232 and 235.
MonthlyMetrics ==
    /\ pc = "monthly"
    /\ igra_monthly' = compute_monthly_metrics(igra_df)
    /\ pc' = "read_aod"
    /\ UNCHANGED <<igra_seasonal, parseVars, igra_df, aod_file, sda_file, aod_monthly,
                   sda_monthly, aerosol_monthly, merged, reportVars>>

\* Line 238.
ReadAeronet ==
    /\ pc = "read_aod"
    /\ \E rows \in SeqsUpTo(AodRows, MaxRows) :
          /\ aod_file' = rows
          /\ aod_monthly' = read_aeronet_monthly(rows)
    /\ pc' = "read_sda"
    /\ UNCHANGED <<igra_seasonal, parseVars, igra_df, igra_monthly, sda_file, sda_monthly,
                   aerosol_monthly, merged, reportVars>>

\* Line 239.
ReadSda ==
    /\ pc = "read_sda"
    /\ \E rows \in SeqsUpTo(SdaRows, MaxRows) :
          /\ sda_file' = rows
          /\ sda_monthly' = read_sda_monthly(rows)
    /\ pc' = "merge_aerosol"
    /\ UNCHANGED <<igra_seasonal, parseVars, igra_df, igra_monthly, aod_file, aod_monthly,
                   aerosol_monthly, merged, reportVars>>

\* Lines 241-248.
MergeAerosol ==
    /\ pc = "merge_aerosol"
    /\ aerosol_monthly' =
          LET sorted == sort_values_month(merge_inner(aod_monthly, sda_monthly))
          IN  [i \in 1..Len(sorted) |-> RenameAndStr(sorted[i])]
    /\ pc' = "merge"
    /\ UNCHANGED <<igra_seasonal, parseVars, igra_df, igra_monthly, aod_file, sda_file,
                   aod_monthly, sda_monthly, merged, reportVars>>

\* The merge of lines 251-255 with a bug: how="left".
merge_combo_left(left, right) == merge_left(left, right)

\* Lines 251-255: the merge of the sounding metrics with the aerosol frame.
merge_combo(left, right) == merge_inner(left, right)

\* Lines 250-259.
MergeCombo ==
    /\ pc = "merge"
    /\ merged' = query_floor(merge_combo(igra_monthly, aerosol_monthly))
    /\ pc' = "done"
    /\ UNCHANGED <<igra_seasonal, parseVars, igra_df, igra_monthly, aod_file, sda_file,
                   aod_monthly, sda_monthly, aerosol_monthly, reportVars>>

NextMain ==
    \/ ParseIgra
    \/ MonthlyMetrics
    \/ ReadAeronet
    \/ ReadSda
    \/ MergeAerosol
    \/ MergeCombo

SpecMain == InitMain /\ [][NextMain]_vars

(***************************************************************************)
(* atmospheric_analysis.py.  A row of the merged frame carries its month   *)
(* as the timestamp [year, month] that load_analysis_data makes of it.     *)
(***************************************************************************)
\* x > n/d and x < n/d on floats: false when x is missing.
gt(x, n, d) == ~isnan(x) /\ x.num * d > n * x.den
lt(x, n, d) == ~isnan(x) /\ x.num * d < n * x.den

CorrelationColumns ==
    {"theta_gradient_med", "Fine_Mode_AOD_500nm", "Coarse_Mode_AOD_500nm",
     "Total_AOD_500nm", "FineModeFraction_500nm", "rh_850_med"}

\* The four pairs: the key of the result and the two columns.
Pairs ==
    { [key |-> "stability_vs_fine_aod",
       x |-> "theta_gradient_med", y |-> "Fine_Mode_AOD_500nm"],
      [key |-> "stability_vs_coarse_aod",
       x |-> "theta_gradient_med", y |-> "Coarse_Mode_AOD_500nm"],
      [key |-> "stability_vs_fine_fraction",
       x |-> "theta_gradient_med", y |-> "FineModeFraction_500nm"],
      [key |-> "humidity_vs_fine_aod",
       x |-> "rh_850_med", y |-> "Fine_Mode_AOD_500nm"] }

\* The test of line 50 with a bug: two rows are enough.
EnoughRowsOff(clean_combo) == Len(clean_combo) > 1

\* Line 50.
EnoughRows(clean_combo) == Len(clean_combo) > 2

\* Lines 40-94.  pearsonr is kept as the two samples it is called on.
calculate_correlations(frame) ==
    LET clean_combo ==
            SelectSeq(frame, LAMBDA r : \A c \in CorrelationColumns : ~isnan(r[c]))
        pearsonr(x, y) == [x |-> Column(clean_combo, x), y |-> Column(clean_combo, y)]
    IN  IF EnoughRows(clean_combo)
        THEN [k \in {q.key : q \in Pairs} |->
                LET q == CHOOSE q \in Pairs : q.key = k
                IN  pearsonr(q.x, q.y)]
        ELSE [k \in {} |-> <<>>]

\* Lines 126-128.
STRONG_INVERSION_THRESHOLD == 12
HIGH_RH_THRESHOLD == 70
HIGH_FINE_AOD_THRESHOLD == Num(3, 10)

\* Lines 131-134 with a bug: the two comparisons are not strict.
high_pollution_episode_ge(row) ==
    /\ ~lt(row.theta_gradient_med, STRONG_INVERSION_THRESHOLD, 1)
    /\ ~lt(row.Fine_Mode_AOD_500nm, HIGH_FINE_AOD_THRESHOLD.num,
           HIGH_FINE_AOD_THRESHOLD.den)

\* Lines 131-134.
high_pollution_episode(row) ==
    /\ gt(row.theta_gradient_med, STRONG_INVERSION_THRESHOLD, 1)
    /\ gt(row.Fine_Mode_AOD_500nm, HIGH_FINE_AOD_THRESHOLD.num,
          HIGH_FINE_AOD_THRESHOLD.den)

\* Lines 136-139.
stagnant_conditions(row) ==
    /\ gt(row.theta_gradient_med, STRONG_INVERSION_THRESHOLD, 1)
    /\ gt(row.rh_850_med, HIGH_RH_THRESHOLD, 1)

\* strftime("%Y-%b"): the "Year-Mon" token of a timestamp.
strftime_Y_b(ts) == MonthToken(ts.year, ts.month)

\* Lines 122-152.
identify_high_pollution_episodes(frame) ==
    LET kept == SelectSeq(frame, high_pollution_episode)
    IN  [i \in 1..Len(kept) |->
           [month_name |-> strftime_Y_b(kept[i].month),
            theta_gradient_med |-> kept[i].theta_gradient_med,
            Fine_Mode_AOD_500nm |-> kept[i].Fine_Mode_AOD_500nm,
            Coarse_Mode_AOD_500nm |-> kept[i].Coarse_Mode_AOD_500nm,
            rh_850_med |-> kept[i].rh_850_med,
            stagnant_conditions |-> stagnant_conditions(kept[i])]]

\* classify_dispersion with a bug: the thresholds belong to the lower class.
classify_dispersion_le(row) ==
    IF ~gt(row.theta_gradient_med, 8, 1) THEN "Excellent"
    ELSE IF ~gt(row.theta_gradient_med, 12, 1) THEN "Good"
    ELSE IF ~gt(row.theta_gradient_med, 15, 1) THEN "Moderate"
    ELSE "Poor"

\* Lines 167-175.
classify_dispersion(row) ==
    IF lt(row.theta_gradient_med, 8, 1) THEN "Excellent"
    ELSE IF lt(row.theta_gradient_med, 12, 1) THEN "Good"
    ELSE IF lt(row.theta_gradient_med, 15, 1) THEN "Moderate"
    ELSE "Poor"

\* Line 161: 1 / (stability + 1).
mixing_potential(stability) ==
    IF isnan(stability) THEN NaN
    ELSE Num(stability.den, stability.num + stability.den)

\* Line 164: mixing_potential * (100 - humidity).
ventilation_index(potential, humidity) ==
    IF isnan(potential) \/ isnan(humidity) THEN NaN
    ELSE Num(potential.num * (100 * humidity.den - humidity.num),
             potential.den * humidity.den)

\* Lines 155-186.
calculate_mixing_metrics(frame) ==
    [i \in 1..Len(frame) |->
        [month |-> frame[i].month,
         theta_gradient_med |-> frame[i].theta_gradient_med,
         rh_850_med |-> frame[i].rh_850_med,
         mixing_potential |-> mixing_potential(frame[i].theta_gradient_med),
         ventilation_index |->
             ventilation_index(mixing_potential(frame[i].theta_gradient_med),
                               frame[i].rh_850_med),
         dispersion_potential |-> classify_dispersion(frame[i])]]

\* attribute_source with a bug: the thresholds belong to the upper class.
attribute_source_ge(row) ==
    LET fine_frac == row.FineModeFraction_500nm
    IN  IF isnan(fine_frac) THEN "Unknown"
        ELSE IF ~lt(fine_frac, 6, 10) THEN "Combustion-dominated (urban/biomass)"
        ELSE IF ~lt(fine_frac, 4, 10) THEN "Mixed (combustion + dust)"
        ELSE "Dust-dominated (natural)"

\* Lines 195-205.
attribute_source(row) ==
    LET fine_frac == row.FineModeFraction_500nm
    IN  IF isnan(fine_frac) THEN "Unknown"
        ELSE IF gt(fine_frac, 6, 10) THEN "Combustion-dominated (urban/biomass)"
        ELSE IF gt(fine_frac, 4, 10) THEN "Mixed (combustion + dust)"
        ELSE "Dust-dominated (natural)"

\* Lines 210-215.
season_of_month(month) ==
    IF month \in {12, 1, 2} THEN "DJF"
    ELSE IF month \in {3, 4, 5} THEN "MAM"
    ELSE IF month \in {6, 7, 8} THEN "JJA"
    ELSE "SON"

\* pd.crosstab(season, likely_source): a table over the seasons and the
\* labels that occur, each cell the number of rows with that pair.
crosstab(seasons, labels) ==
    [index |-> {seasons[i] : i \in 1..Len(seasons)},
     columns |-> {labels[i] : i \in 1..Len(labels)},
     cell |-> [p \in {seasons[i] : i \in 1..Len(seasons)}
                      \X {labels[i] : i \in 1..Len(labels)} |->
                 Cardinality({i \in 1..Len(seasons) :
                                 seasons[i] = p[1] /\ labels[i] = p[2]})]]

\* Lines 189-219.
aerosol_source_attribution(frame) ==
    crosstab([i \in 1..Len(frame) |-> season_of_month(frame[i].month.month)],
             [i \in 1..Len(frame) |-> attribute_source(frame[i])])

(***************************************************************************)
(* The merged frames the report is run on.                                 *)
(***************************************************************************)
ComboRow(month, stability, fine, coarse, total, eta, rh) ==
    [month |-> [year |-> 2010, month |-> month],
     theta_gradient_med |-> stability,
     Fine_Mode_AOD_500nm |-> fine,
     Coarse_Mode_AOD_500nm |-> coarse,
     Total_AOD_500nm |-> total,
     FineModeFraction_500nm |-> eta,
     rh_850_med |-> rh]

\* Rows that differ in the values that are missing.
CorrelationRows ==
    { ComboRow(1, Num(95, 10), Num(20, 100), Num(10, 100), Num(30, 100),
               Num(66, 100), Num(55, 1)),
      ComboRow(2, Num(131, 10), Num(35, 100), Num(5, 100), Num(40, 100),
               Num(87, 100), Num(75, 1)),
      ComboRow(3, Num(60, 10), Num(12, 100), Num(18, 100), NaN,
               Num(40, 100), Num(40, 1)),
      ComboRow(4, Num(70, 10), Num(15, 100), Num(15, 100), Num(30, 100),
               Num(50, 100), NaN),
      ComboRow(5, Num(80, 10), NaN, Num(25, 100), Num(45, 100),
               Num(44, 100), Num(30, 1)),
      ComboRow(6, Num(90, 10), Num(22, 100), NaN, Num(33, 100),
               NaN, Num(35, 1)) }

\* Rows on and off the thresholds of the episode test.
EpisodeRows ==
    { ComboRow(1, stability, fine, Num(10, 100), Num(45, 100), Num(70, 100), rh) :
        stability \in {Num(120, 10), Num(130, 10)},
        fine \in {Num(30, 100), Num(35, 100), NaN},
        rh \in {Num(70, 1), Num(75, 1), NaN} }

\* Rows on and off the thresholds of the dispersion classes.
MixingRows ==
    { ComboRow(1, stability, Num(20, 100), Num(10, 100), Num(30, 100),
               Num(66, 100), Num(55, 1)) :
        stability \in {Num(79, 10), Num(80, 10), Num(119, 10), Num(120, 10),
                       Num(149, 10), Num(150, 10)} }

\* Rows on and off the thresholds of the source labels, one per season and
\* each month of the winter.
SourceRows ==
    { ComboRow(1, Num(95, 10), NaN, NaN, NaN, NaN, Num(55, 1)),
      ComboRow(12, Num(95, 10), Num(26, 100), Num(14, 100), Num(40, 100),
               Num(65, 100), Num(55, 1)),
      ComboRow(3, Num(95, 10), Num(24, 100), Num(16, 100), Num(40, 100),
               Num(60, 100), Num(55, 1)),
      ComboRow(7, Num(95, 10), Num(22, 100), Num(18, 100), Num(40, 100),
               Num(55, 100), Num(55, 1)),
      ComboRow(10, Num(95, 10), Num(16, 100), Num(24, 100), Num(40, 100),
               Num(40, 100), Num(55, 1)),
      ComboRow(2, Num(95, 10), Num(17, 100), Num(23, 100), Num(40, 100),
               Num(41, 100), Num(55, 1)) }

Combos ==
    SeqsUpTo(CorrelationRows, MaxMonths)
    \cup SeqsUpTo(EpisodeRows, MaxMonths - 1)
    \cup SeqsUpTo(MixingRows, MaxMonths - 1)
    \cup SeqsUpTo(SourceRows, MaxMonths - 1)

(***************************************************************************)
(* generate_comprehensive_atmospheric_report.                              *)
(***************************************************************************)
InitReport ==
    /\ pc = "report"
    /\ file = <<>>
    /\ pos = 0
    /\ records = <<>>
    /\ role = <<>>
    /\ origin = <<>>
    /\ igra_df = <<>>
    /\ igra_monthly = <<>>
    /\ igra_seasonal = <<>>
    /\ aod_file = <<>>
    /\ sda_file = <<>>
    /\ aod_monthly = <<>>
    /\ sda_monthly = <<>>
    /\ aerosol_monthly = <<>>
    /\ merged = <<>>
    /\ combo = <<>>
    /\ correlations = <<>>
    /\ episodes = <<>>
    /\ mixing = <<>>
    /\ sources = <<>>

\* Line 295: load_analysis_data, of a merged file of at least one row.
LoadAnalysisData ==
    /\ pc = "report"
    /\ \E frame \in Combos \ {<<>>} : combo' = frame
    /\ pc' = "correlations"
    /\ UNCHANGED <<igra_seasonal, parseVars, igra_df, mainVars, correlations, episodes, mixing,
                   sources>>

\* Line 304.
CalculateCorrelations ==
    /\ pc = "correlations"
    /\ correlations' = calculate_correlations(combo)
    /\ pc' = "episodes"
    /\ UNCHANGED <<igra_seasonal, parseVars, igra_df, mainVars, combo, episodes, mixing, sources>>

\* Line 334.
IdentifyEpisodes ==
    /\ pc = "episodes"
    /\ episodes' = identify_high_pollution_episodes(combo)
    /\ pc' = "mixing"
    /\ UNCHANGED <<igra_seasonal, parseVars, igra_df, mainVars, combo, correlations, mixing,
                   sources>>

\* Line 348.
CalculateMixing ==
    /\ pc = "mixing"
    /\ mixing' = calculate_mixing_metrics(combo)
    /\ pc' = "sources"
    /\ UNCHANGED <<igra_seasonal, parseVars, igra_df, mainVars, combo, correlations, episodes,
                   sources>>

\* Line 358.
SourceAttribution ==
    /\ pc = "sources"
    /\ sources' = aerosol_source_attribution(combo)
    /\ pc' = "reported"
    /\ UNCHANGED <<igra_seasonal, parseVars, igra_df, mainVars, combo, correlations, episodes,
                   mixing>>

NextReport ==
    \/ LoadAnalysisData
    \/ CalculateCorrelations
    \/ IdentifyEpisodes
    \/ CalculateMixing
    \/ SourceAttribution

SpecReport == InitReport /\ [][NextReport]_vars

(***************************************************************************)
(* Properties of main.                                                     *)
(***************************************************************************)
\* The month key "YYYY-MM" a "Year-Mon" token stands for.
KeyOfToken(token) == PeriodStr(Period(token.year, token.mon))

InAodSource(key) ==
    \E i \in 1..Len(aod_file) :
        aod_file[i].Month.hyphen /\ KeyOfToken(aod_file[i].Month) = key

InSdaSource(key) ==
    \E i \in 1..Len(sda_file) :
        sda_file[i].Month.hyphen /\ KeyOfToken(sda_file[i].Month) = key

InSoundingMetrics(key) ==
    \E i \in 1..Len(igra_monthly) : igra_monthly[i].month = key

\* C1: the month of every merged record occurs in the monthly sounding
\* metrics, in the AOD source and in the SDA source, and is not before
\* "2010-01".
C1_MergedMonthsInAllSources ==
    \A k \in 1..Len(merged) :
        /\ InSoundingMetrics(merged[k].month)
        /\ InAodSource(merged[k].month)
        /\ InSdaSource(merged[k].month)
        /\ ~StrLess(merged[k].month, FloorMonth)

\* The merge has run on inputs that share December 2009 and a later month,
\* with a sounding month that an aerosol source lacks: the later month is
\* in the output.
C1_Witness ==
    /\ pc = "done"
    /\ Len(merged) >= 1
    /\ \E i \in 1..Len(igra_monthly) :
          /\ StrLess(igra_monthly[i].month, FloorMonth)
          /\ InAodSource(igra_monthly[i].month)
          /\ InSdaSource(igra_monthly[i].month)
    /\ \E i \in 1..Len(igra_monthly) :
          ~StrLess(igra_monthly[i].month, FloorMonth)
          /\ ~InAodSource(igra_monthly[i].month)

\* C7 as claimed: the rows of the merged output are in strictly ascending
\* month order, so no month key appears in two rows.
C7_StrictlyAscending ==
    \A i, j \in 1..Len(merged) :
        i < j => StrLess(merged[i].month, merged[j].month)

AerosolFields ==
    {"AOD_500nm", "AOD_870nm", "AE_440_870", "obs_days", "Total_AOD_500nm",
     "Fine_Mode_AOD_500nm", "Coarse_Mode_AOD_500nm", "FineModeFraction_500nm"}

FromAodRow(row, a) ==
    /\ a.Month.hyphen
    /\ KeyOfToken(a.Month) = row.month
    /\ row.AOD_500nm = na(a.AOD_500nm)
    /\ row.AOD_870nm = na(a.AOD_870nm)
    /\ row.AE_440_870 = na(a.Angstrom_440_870)
    /\ row.obs_days = na(a.NUM_DAYS)

FromSdaRow(row, d) ==
    /\ d.Month.hyphen
    /\ KeyOfToken(d.Month) = row.month
    /\ row.Total_AOD_500nm = na(d.Total_AOD_500nm)
    /\ row.Fine_Mode_AOD_500nm = na(d.Fine_Mode_AOD_500nm)
    /\ row.Coarse_Mode_AOD_500nm = na(d.Coarse_Mode_AOD_500nm)
    /\ row.FineModeFraction_500nm = na(d.FineModeFraction_500nm)

AfterCorrelations == pc \in {"episodes", "mixing", "sources", "reported"}
AfterEpisodes == pc \in {"mixing", "sources", "reported"}
AfterMixing == pc \in {"sources", "reported"}
AfterSources == pc = "reported"

\* The rows of the merged frame in which both variables of a pair are present.
PairedRows(q) ==
    SelectSeq(combo, LAMBDA r : ~isnan(r[q.x]) /\ ~isnan(r[q.y]))

\* C3: a pair of variables that fewer than 3 rows of the merged frame have
\* both present has no entry in the result of calculate_correlations.
C3_FewPairedRowsNoEntry ==
    AfterCorrelations =>
        \A q \in Pairs :
            Len(PairedRows(q)) < 3 => q.key \notin DOMAIN correlations

\* Three merged rows of which two have both variables of some pair: the
\* result has no entry for that pair.
C3_Witness ==
    /\ AfterCorrelations
    /\ Len(combo) = 3
    /\ \E q \in Pairs :
          /\ Len(PairedRows(q)) = 2
          /\ q.key \notin DOMAIN correlations

\* C9: every pair of variables that at least 3 rows of the merged frame have
\* both present has an entry in the result, computed over exactly those rows:
\* a value missing in another column removes no row from the sample.
C9_PairwiseSample ==
    AfterCorrelations =>
        \A q \in Pairs :
            Len(PairedRows(q)) >= 3 =>
                /\ q.key \in DOMAIN correlations
                /\ correlations[q.key] = [x |-> Column(PairedRows(q), q.x),
                                          y |-> Column(PairedRows(q), q.y)]

\* The dispersion category of a stability value, by its intervals.
DispersionOf(stability) ==
    IF stability.num < 8 * stability.den THEN "Excellent"
    ELSE IF stability.num < 12 * stability.den THEN "Good"
    ELSE IF stability.num < 15 * stability.den THEN "Moderate"
    ELSE "Poor"

\* C4: every row of the mixing metrics carries the one dispersion category
\* of its stability: below 8 "Excellent", from 8 below 12 "Good", from 12
\* below 15 "Moderate", from 15 on "Poor".
C4_DispersionByIntervals ==
    AfterMixing =>
        /\ Len(mixing) = Len(combo)
        /\ \A i \in 1..Len(combo) :
              /\ mixing[i].theta_gradient_med = combo[i].theta_gradient_med
              /\ mixing[i].dispersion_potential
                    = DispersionOf(combo[i].theta_gradient_med)

\* Rows whose stability is exactly 8, 12 and 15 are classified "Good",
\* "Moderate" and "Poor".
C4_Witness ==
    /\ AfterMixing
    /\ \E i \in 1..Len(mixing) :
          /\ mixing[i].theta_gradient_med \in {Num(80, 10), Num(120, 10)}
          /\ mixing[i].dispersion_potential \in {"Good", "Moderate"}
    /\ \E i \in 1..Len(mixing) :
          /\ mixing[i].theta_gradient_med = Num(150, 10)
          /\ mixing[i].dispersion_potential = "Poor"

\* A row is an episode: stability above 12 and fine-mode AOD above 0.3.
IsEpisode(row) ==
    /\ ~isnan(row.theta_gradient_med)
    /\ ~isnan(row.Fine_Mode_AOD_500nm)
    /\ row.theta_gradient_med.num > 12 * row.theta_gradient_med.den
    /\ 10 * row.Fine_Mode_AOD_500nm.num > 3 * row.Fine_Mode_AOD_500nm.den

\* A row is stagnant: stability above 12 and humidity above 70.
IsStagnant(row) ==
    /\ ~isnan(row.theta_gradient_med)
    /\ ~isnan(row.rh_850_med)
    /\ row.theta_gradient_med.num > 12 * row.theta_gradient_med.den
    /\ row.rh_850_med.num > 70 * row.rh_850_med.den

\* C5: the episodes are exactly the merged rows, in their order, whose
\* stability is above 12 and whose fine-mode AOD is above 0.3, both strictly
\* and both present; the stagnant flag of each is true iff its stability is
\* above 12 and its humidity above 70.
C5_EpisodesStrictThresholds ==
    AfterEpisodes =>
        LET kept == SelectSeq(combo, IsEpisode)
        IN  /\ Len(episodes) = Len(kept)
            /\ \A i \in 1..Len(kept) :
                  /\ episodes[i].month_name
                        = MonthToken(kept[i].month.year, kept[i].month.month)
                  /\ episodes[i].theta_gradient_med = kept[i].theta_gradient_med
                  /\ episodes[i].Fine_Mode_AOD_500nm = kept[i].Fine_Mode_AOD_500nm
                  /\ episodes[i].Coarse_Mode_AOD_500nm
                        = kept[i].Coarse_Mode_AOD_500nm
                  /\ episodes[i].rh_850_med = kept[i].rh_850_med
                  /\ episodes[i].stagnant_conditions = IsStagnant(kept[i])

\* A row with stability 12 and one with stability 13, fine-mode AOD 0.35 and
\* humidity 75: only the second is returned, flagged stagnant.
C5_Witness ==
    /\ AfterEpisodes
    /\ Len(combo) = 2
    /\ combo[1].theta_gradient_med = Num(120, 10)
    /\ combo[1].Fine_Mode_AOD_500nm = Num(35, 100)
    /\ combo[2].theta_gradient_med = Num(130, 10)
    /\ combo[2].Fine_Mode_AOD_500nm = Num(35, 100)
    /\ combo[2].rh_850_med = Num(75, 1)
    /\ Len(episodes) = 1
    /\ episodes[1].theta_gradient_med = Num(130, 10)
    /\ episodes[1].stagnant_conditions

\* The class of a fine-mode fraction, by its intervals.
SourceClassOf(fine_frac) ==
    IF isnan(fine_frac) THEN "Unknown"
    ELSE IF 10 * fine_frac.num > 6 * fine_frac.den THEN "Combustion"
    ELSE IF 10 * fine_frac.num > 4 * fine_frac.den THEN "Mixed"
    ELSE "Dust"

\* The labels as the claim words them.
ShortLabel(class) ==
    CASE class = "Unknown" -> "Unknown"
      [] class = "Combustion" -> "Combustion-dominated"
      [] class = "Mixed" -> "Mixed"
      [] class = "Dust" -> "Dust-dominated"

\* The labels with their qualifiers.
FullLabel(class) ==
    CASE class = "Unknown" -> "Unknown"
      [] class = "Combustion" -> "Combustion-dominated (urban/biomass)"
      [] class = "Mixed" -> "Mixed (combustion + dust)"
      [] class = "Dust" -> "Dust-dominated (natural)"

SeasonOf(month) ==
    CASE month \in {12, 1, 2} -> "DJF"
      [] month \in {3, 4, 5} -> "MAM"
      [] month \in {6, 7, 8} -> "JJA"
      [] month \in {9, 10, 11} -> "SON"

\* The cross-tab counts every merged row once, under its season and the
\* label LabelOf[class] of its fine-mode fraction.
CrossTabCounts(LabelOf) ==
    LET rows == 1..Len(combo)
        season(i) == SeasonOf(combo[i].month.month)
        label(i) == LabelOf[SourceClassOf(combo[i].FineModeFraction_500nm)]
    IN  /\ sources.index = {season(i) : i \in rows}
        /\ sources.columns = {label(i) : i \in rows}
        /\ \A p \in sources.index \X sources.columns :
              sources.cell[p]
                 = Cardinality({i \in rows : season(i) = p[1] /\ label(i) = p[2]})

Classes == {"Unknown", "Combustion", "Mixed", "Dust"}

\* C6: every merged row gets one source label from its fine-mode fraction
\* (missing "Unknown", above 0.6 "Combustion-dominated", above 0.4 up to 0.6
\* "Mixed", up to 0.4 "Dust-dominated") and is counted once in the cross-tab
\* under its season and that label.
C6_LabelsAsWorded ==
    AfterSources => CrossTabCounts([c \in Classes |-> ShortLabel(c)])

\* C6 with the labels the cross-tab carries: "Unknown",
\* "Combustion-dominated (urban/biomass)", "Mixed (combustion + dust)" and
\* "Dust-dominated (natural)", by the same intervals and seasons.
C6_LabelsWithQualifiers ==
    AfterSources => CrossTabCounts([c \in Classes |-> FullLabel(c)])

\* A winter row of fraction 0.65 or missing, next to a row whose fraction is
\* exactly 0.6 or exactly 0.4, both counted.
C6_Witness ==
    /\ AfterSources
    /\ Len(combo) = 2
    /\ combo[1].month.month \in {12, 1}
    /\ combo[2].FineModeFraction_500nm \in {Num(60, 100), Num(40, 100)}
    /\ \E l \in sources.columns :
          /\ l \in {"Mixed (combustion + dust)", "Dust-dominated (natural)"}
          /\ sources.cell[<<SeasonOf(combo[2].month.month), l>>] = 1
    /\ \E l \in sources.columns :
          /\ l \in {"Unknown", "Combustion-dominated (urban/biomass)"}
          /\ sources.cell[<<"DJF", l>>] = 1

(***************************************************************************)
(* read_aeronet_monthly and read_sda_monthly on the text of the Month      *)
(* column.  A Month cell is the sequence of its character codes.           *)
(***************************************************************************)
IsDigit(c) == c \in 48..57

\* str.upper on one character: strptime matches %b without regard to case.
Upper(c) == IF c \in 97..122 THEN c - 32 ELSE c

\* The abbreviated month names of %b: JAN, FEB, ..., DEC.
MonthAbbrs ==
    << <<74, 65, 78>>, <<70, 69, 66>>, <<77, 65, 82>>, <<65, 80, 82>>,
       <<77, 65, 89>>, <<74, 85, 78>>, <<74, 85, 76>>, <<65, 85, 71>>,
       <<83, 69, 80>>, <<79, 67, 84>>, <<78, 79, 86>>, <<68, 69, 67>> >>

\* na_values=["-999.000000"]: the text read as a missing cell.
SentinelText ==
    <<Hyphen, Digit(9), Digit(9), Digit(9), 46,
      Digit(0), Digit(0), Digit(0), Digit(0), Digit(0), Digit(0)>>

\* str(float("nan")): "nan".
NanText == <<110, 97, 110>>

\* read_csv then astype(str): an empty cell and the sentinel are NaN, which
\* astype(str) spells "nan"; any other text is kept.
astype_str(text) ==
    IF text = <<>> \/ text = SentinelText THEN NanText ELSE text

\* str.contains("-")
str_contains_hyphen(text) == \E i \in 1..Len(text) : text[i] = Hyphen

\* pd.to_datetime(text, format="%Y-%b") raises ValueError: the text is not
\* four digits, a hyphen and an abbreviated month name, and nothing more.
strptime_raises(text) ==
    ~ /\ Len(text) = 8
      /\ \A i \in 1..4 : IsDigit(text[i])
      /\ text[5] = Hyphen
      /\ \E m \in 1..12 :
            MonthAbbrs[m] = <<Upper(text[6]), Upper(text[7]), Upper(text[8])>>

\* pd.to_datetime(text, format="%Y-%b") of a text it accepts.
strptime_Y_b(text) ==
    MonthToken((text[1] - 48) * 1000 + (text[2] - 48) * 100
                  + (text[3] - 48) * 10 + (text[4] - 48),
               CHOOSE m \in 1..12 :
                  MonthAbbrs[m] = <<Upper(text[6]), Upper(text[7]), Upper(text[8])>>)

\* Line 201 (216) on the rows of a file: the rows the mask keeps.
MaskedRows(rows) ==
    SelectSeq(rows, LAMBDA r : str_contains_hyphen(astype_str(r.Month)))

\* Line 202 (217) raises: one of the rows kept by the mask does not parse.
to_datetime_raises(rows) ==
    \E i \in 1..Len(MaskedRows(rows)) : strptime_raises(MaskedRows(rows)[i].Month)

\* The rows of a file with the Month text replaced by what lines 201-202
\* make of it.
WithTokens(rows) ==
    [i \in 1..Len(rows) |->
        [rows[i] EXCEPT !.Month =
            IF str_contains_hyphen(astype_str(rows[i].Month))
            THEN strptime_Y_b(rows[i].Month)
            ELSE NoToken]]

\* "2010-JAN", "2010-Feb", "2009-DEC"
Text_2010_JAN == <<Digit(2), Digit(0), Digit(1), Digit(0), Hyphen, 74, 65, 78>>
Text_2010_Feb == <<Digit(2), Digit(0), Digit(1), Digit(0), Hyphen, 70, 101, 98>>
Text_2009_DEC == <<Digit(2), Digit(0), Digit(0), Digit(9), Hyphen, 68, 69, 67>>
\* "YEAR": a text without a hyphen.
Text_YEAR == <<89, 69, 65, 82>>
\* "2010-13" and "JAN-2010": texts with a hyphen that %Y-%b does not match.
Text_2010_13 == <<Digit(2), Digit(0), Digit(1), Digit(0), Hyphen, Digit(1), Digit(3)>>
Text_JAN_2010 == <<74, 65, 78, Hyphen, Digit(2), Digit(0), Digit(1), Digit(0)>>

MonthTexts ==
    {Text_2010_JAN, Text_2010_Feb, Text_2009_DEC, Text_YEAR, <<>>, SentinelText,
     Text_2010_13, Text_JAN_2010}

AodTextRows ==
    {AodRow(text, 350000, 150000, 1100000, 12000000) : text \in MonthTexts}
    \cup {AodRow(Text_2010_JAN, NA_VALUE, NA_VALUE, NA_VALUE, NA_VALUE)}

SdaTextRows ==
    {SdaRow(text, 400000, 300000, 100000, 750000) : text \in MonthTexts}
    \cup {SdaRow(Text_2010_JAN, NA_VALUE, NA_VALUE, NA_VALUE, NA_VALUE)}

InitRead ==
    /\ pc = "call"
    /\ file = <<>>
    /\ pos = 0
    /\ records = <<>>
    /\ role = <<>>
    /\ origin = <<>>
    /\ igra_df = <<>>
    /\ igra_monthly = <<>>
    /\ igra_seasonal = <<>>
    /\ aod_file = <<>>
    /\ sda_file = <<>>
    /\ aod_monthly = <<>>
    /\ sda_monthly = <<>>
    /\ aerosol_monthly = <<>>
    /\ merged = <<>>
    /\ combo = <<>>
    /\ correlations = <<>>
    /\ episodes = <<>>
    /\ mixing = <<>>
    /\ sources = <<>>

\* A call of read_aeronet_monthly: it returns its frame or raises at line 202.
CallReadAeronet ==
    /\ pc = "call"
    /\ \E rows \in SeqsUpTo(AodTextRows, MaxRows) :
          /\ aod_file' = rows
          /\ IF to_datetime_raises(rows)
             THEN pc' = "aod_raised" /\ UNCHANGED aod_monthly
             ELSE /\ pc' = "aod_returned"
                  /\ aod_monthly' = read_aeronet_monthly(WithTokens(rows))
    /\ UNCHANGED <<igra_seasonal, parseVars, igra_df, igra_monthly, sda_file, sda_monthly,
                   aerosol_monthly, merged, reportVars>>

\* A call of read_sda_monthly: it returns its frame or raises at line 217.
CallReadSda ==
    /\ pc = "call"
    /\ \E rows \in SeqsUpTo(SdaTextRows, MaxRows) :
          /\ sda_file' = rows
          /\ IF to_datetime_raises(rows)
             THEN pc' = "sda_raised" /\ UNCHANGED sda_monthly
             ELSE /\ pc' = "sda_returned"
                  /\ sda_monthly' = read_sda_monthly(WithTokens(rows))
    /\ UNCHANGED <<igra_seasonal, parseVars, igra_df, igra_monthly, aod_file, aod_monthly,
                   aerosol_monthly, merged, reportVars>>

NextRead ==
    \/ CallReadAeronet
    \/ CallReadSda

SpecRead == InitRead /\ [][NextRead]_vars

(***************************************************************************)
(* Properties of the two readers.                                          *)
(***************************************************************************)
\* A Month text is a "Year-Mon" token: a year of four digits, a hyphen and an
\* abbreviated month name.
IsYearMon(text) ==
    /\ Len(text) = 8
    /\ \A i \in 1..4 : IsDigit(text[i])
    /\ text[5] = Hyphen
    /\ \E m \in 1..12 :
          MonthAbbrs[m] = <<Upper(text[6]), Upper(text[7]), Upper(text[8])>>

\* The calendar months of the rows of a file whose Month is a token, in the
\* order of the file.
TokenMonths(rows) ==
    LET kept == SelectSeq(rows, LAMBDA r : IsYearMon(r.Month))
    IN  [i \in 1..Len(kept) |->
           Period((kept[i].Month[1] - 48) * 1000 + (kept[i].Month[2] - 48) * 100
                     + (kept[i].Month[3] - 48) * 10 + (kept[i].Month[4] - 48),
                  CHOOSE m \in 1..12 :
                     MonthAbbrs[m] = <<Upper(kept[i].Month[6]),
                                       Upper(kept[i].Month[7]),
                                       Upper(kept[i].Month[8])>>)]

\* C11: a call of either reader does not abort, and the rows it returns are
\* the rows of the file whose Month is a "Year-Mon" token, each under the
\* calendar month of its token; every other row is dropped.
C11_NonTokensDroppedNoAbort ==
    /\ pc \notin {"aod_raised", "sda_raised"}
    /\ pc = "aod_returned" => Column(aod_monthly, "month") = TokenMonths(aod_file)
    /\ pc = "sda_returned" => Column(sda_monthly, "month") = TokenMonths(sda_file)

\* C11 for the calls that return: the rows returned are the rows whose Month
\* is a "Year-Mon" token, each under the calendar month of its token.
C11_ReturnedRowsAreTokens ==
    /\ pc = "aod_returned" => Column(aod_monthly, "month") = TokenMonths(aod_file)
    /\ pc = "sda_returned" => Column(sda_monthly, "month") = TokenMonths(sda_file)

\* A file with a token row and a row without a hyphen or a sentinel Month:
\* the call returns the token row alone.
C11_Witness ==
    /\ pc = "aod_returned"
    /\ Len(aod_file) = 2
    /\ aod_file[1].Month \in {Text_YEAR, SentinelText}
    /\ aod_file[2].Month = Text_2010_Feb
    /\ Len(aod_monthly) = 1
    /\ aod_monthly[1].month = Period(2010, 2)

(***************************************************************************)
(* compute_seasonal_metrics.  A season label is the string                 *)
(* "<year>-<season>", kept as the sequence of its character codes.         *)
(***************************************************************************)
DJF == <<68, 74, 70>>
MAM == <<77, 65, 77>>
JJA == <<74, 74, 65>>
SON == <<83, 79, 78>>

\* f"{year}-{season}" of a four-digit year.
LabelStr(year, season) ==
    << Digit(year \div 1000), Digit((year \div 100) % 10),
       Digit((year \div 10) % 10), Digit(year % 10), Hyphen >> \o season

\* season_label with a bug: December keeps its own year.
season_label_own_year(ts) ==
    LET month == ts.month
    IN  IF month \in {12, 1, 2} THEN LabelStr(ts.year, DJF)
        ELSE IF month \in {3, 4, 5} THEN LabelStr(ts.year, MAM)
        ELSE IF month \in {6, 7, 8} THEN LabelStr(ts.year, JJA)
        ELSE LabelStr(ts.year, SON)

\* Lines 164-178.
season_label(ts) ==
    LET month == ts.month
    IN  IF month \in {12, 1, 2}
        THEN LabelStr(IF month # 12 THEN ts.year ELSE ts.year + 1, DJF)
        ELSE IF month \in {3, 4, 5} THEN LabelStr(ts.year, MAM)
        ELSE IF month \in {6, 7, 8} THEN LabelStr(ts.year, JJA)
        ELSE LabelStr(ts.year, SON)

\* The keys of a groupby on strings, ascending.
RECURSIVE SortedStrs(_)
SortedStrs(S) ==
    IF S = {} THEN <<>>
    ELSE LET first == CHOOSE a \in S : \A b \in S : ~StrLess(b, a)
         IN  <<first>> \o SortedStrs(S \ {first})

\* Lines 161-192.
compute_seasonal_metrics(df) ==
    LET keys == SortedStrs({season_label(df[i].datetime) : i \in 1..Len(df)})
        group(k) == SelectSeq(df, LAMBDA r : season_label(r.datetime) = k)
    IN  [g \in 1..Len(keys) |->
           LET rows == group(keys[g])
           IN  [season |-> keys[g],
                theta_gradient_med |-> median(Column(rows, "theta_gradient_700_925_K")),
                theta_gradient_iqr |-> iqr(Column(rows, "theta_gradient_700_925_K")),
                rh_850_med |-> median(Column(rows, "relative_humidity_850_pct")),
                height_diff_med |-> median(Column(rows, "height_diff_700_925_m")),
                soundings |-> count(Column(rows, "theta_gradient_700_925_K"))]]

\* One sounding in every month of two years.
SeasonSoundings ==
    { Sounding(year, month, 15, Num(90 + month, 10), Num(500 + year - 2000, 10), NaN) :
        year \in {2009, 2010}, month \in 1..12 }

\* The frames parse_igra_soundings may return: at least one record.
SeasonFrames == SeqsUpTo(SeasonSoundings, MaxRows) \ {<<>>}

InitAggregate ==
    /\ pc = "parse_igra"
    /\ file = <<>>
    /\ pos = 0
    /\ records = <<>>
    /\ role = <<>>
    /\ origin = <<>>
    /\ igra_df = <<>>
    /\ igra_monthly = <<>>
    /\ igra_seasonal = <<>>
    /\ aod_file = <<>>
    /\ sda_file = <<>>
    /\ aod_monthly = <<>>
    /\ sda_monthly = <<>>
    /\ aerosol_monthly = <<>>
    /\ merged = <<>>
    /\ combo = <<>>
    /\ correlations = <<>>
    /\ episodes = <<>>
    /\ mixing = <<>>
    /\ sources = <<>>

\* Line 231.
ParseIgraFrame ==
    /\ pc = "parse_igra"
    /\ \E df \in SeasonFrames : igra_df' = df
    /\ pc' = "monthly_metrics"
    /\ UNCHANGED <<parseVars, igra_seasonal, mainVars, reportVars>>

\* Line 232.
MonthlyMetricsOfFrame ==
    /\ pc = "monthly_metrics"
    /\ igra_monthly' = compute_monthly_metrics(igra_df)
    /\ pc' = "seasonal_metrics"
    /\ UNCHANGED <<parseVars, igra_df, igra_seasonal, aod_file, sda_file,
                   aod_monthly, sda_monthly, aerosol_monthly, merged, reportVars>>

\* Line 233.
SeasonalMetricsOfFrame ==
    /\ pc = "seasonal_metrics"
    /\ igra_seasonal' = compute_seasonal_metrics(igra_df)
    /\ pc' = "aggregated"
    /\ UNCHANGED <<parseVars, igra_df, mainVars, reportVars>>

NextAggregate ==
    \/ ParseIgraFrame
    \/ MonthlyMetricsOfFrame
    \/ SeasonalMetricsOfFrame

SpecAggregate == InitAggregate /\ [][NextAggregate]_vars

(***************************************************************************)
(* Properties of the seasonal metrics.                                     *)
(***************************************************************************)
\* The season of a month and the year a timestamp's season is attributed to.
SeasonLetters(month) ==
    CASE month \in {12, 1, 2} -> DJF
      [] month \in {3, 4, 5} -> MAM
      [] month \in {6, 7, 8} -> JJA
      [] month \in {9, 10, 11} -> SON

SeasonYear(ts) == IF ts.month = 12 THEN ts.year + 1 ELSE ts.year

ClaimedLabel(ts) == LabelStr(SeasonYear(ts), SeasonLetters(ts.month))

\* The soundings of the frame with a given season label, and of a given
\* calendar month.
SoundingsLabelled(label) ==
    {i \in 1..Len(igra_df) : ClaimedLabel(igra_df[i].datetime) = label}

SoundingsOfMonth(year, month) ==
    {i \in 1..Len(igra_df) :
        igra_df[i].datetime.year = year /\ igra_df[i].datetime.month = month}

\* C12: every sounding is grouped under the label "<year>-<season>" of its
\* timestamp, December of Y under "(Y+1)-DJF", January and February of Y under
\* "Y-DJF", the other months under the season of their own year: each group
\* of the seasonal metrics counts exactly the soundings of its label; the
\* monthly metrics key a December sounding under "Y-12".
C12_SeasonYearLabels ==
    pc = "aggregated" =>
        /\ \A i \in 1..Len(igra_df) :
              Cardinality({g \in 1..Len(igra_seasonal) :
                  igra_seasonal[g].season = ClaimedLabel(igra_df[i].datetime)}) = 1
        /\ \A g \in 1..Len(igra_seasonal) :
              /\ SoundingsLabelled(igra_seasonal[g].season) # {}
              /\ igra_seasonal[g].soundings
                    = Cardinality(SoundingsLabelled(igra_seasonal[g].season))
        /\ \A i \in 1..Len(igra_df) :
              LET ts == igra_df[i].datetime
              IN  \E g \in 1..Len(igra_monthly) :
                     /\ igra_monthly[g].month = PeriodStr(Period(ts.year, ts.month))
                     /\ igra_monthly[g].soundings
                           = Cardinality(SoundingsOfMonth(ts.year, ts.month))

\* A sounding of December 2009 and one of January 2010: one seasonal group
\* "2010-DJF" of two soundings, two monthly groups "2009-12" and "2010-01".
C12_Witness ==
    /\ pc = "aggregated"
    /\ Len(igra_df) = 2
    /\ igra_df[1].datetime.year = 2009 /\ igra_df[1].datetime.month = 12
    /\ igra_df[2].datetime.year = 2010 /\ igra_df[2].datetime.month = 1
    /\ Len(igra_seasonal) = 1
    /\ igra_seasonal[1].season = LabelStr(2010, DJF)
    /\ igra_seasonal[1].soundings = 2
    /\ Len(igra_monthly) = 2
    /\ igra_monthly[1].month = PeriodStr(Period(2009, 12))
    /\ igra_monthly[2].month = PeriodStr(Period(2010, 1))

====
